---- MODULE Spec2Model ----
(***************************************************************************)
(* A model of ai-code-review.py: the review pipeline of main() (fetch the  *)
(* latest iteration's changes, filter them, ask for a review, post the     *)
(* summary, extract findings, post inline comments) and of the pure        *)
(* helpers it calls (should_review_file, detect_languages,                 *)
(* detect_frameworks, load_skill_content, load_reference,                  *)
(* build_review_prompt, extract_issues_from_review).                       *)
(*                                                                         *)
(* Python strings on which the code does substring, prefix or suffix tests *)
(* (paths, file lines, the words of a review) are sequences of             *)
(* one-character strings; opaque strings (tags, reasons) are TLA+ strings. *)
(* A text is a sequence of lines or of tokens, as said where it is defined.*)
(*                                                                         *)
(* External calls are modelled by the outcomes the code distinguishes: an  *)
(* HTTP status that raise_for_status() turns into an exception, a status   *)
(* tested against 200/201, an exception caught by perform_ai_review.       *)
(* Outside the model: an exception raised by requests itself (no response  *)
(* at all) and a chat completion whose message content is None.            *)
(***************************************************************************)
EXTENDS Integers, Sequences, FiniteSets, TLC

\* ------------------------------------------------------------------------
\* Python string and list primitives
\* ------------------------------------------------------------------------

Min(a, b) ==
  IF a <= b THEN a ELSE b

Max(a, b) ==
  IF a >= b THEN a ELSE b

\* s.startswith(p)
StartsWith(s, p) ==
  /\ Len(p) <= Len(s)
  /\ SubSeq(s, 1, Len(p)) = p

\* s.endswith(p)
EndsWith(s, p) ==
  /\ Len(p) <= Len(s)
  /\ SubSeq(s, Len(s) - Len(p) + 1, Len(s)) = p

\* p in s
Contains(s, p) ==
  \E i \in 1..(Len(s) - Len(p) + 1) : SubSeq(s, i, i + Len(p) - 1) = p

\* s.lstrip(c): s without its leading run of the character c
LStrip(s, c) ==
  LET lead == { i \in 1..Len(s) : \A j \in 1..i : s[j] = c }
  IN  SubSeq(s, Cardinality(lead) + 1, Len(s))

\* seq[:k], Python's prefix slice: a negative k counts from the end
PyPrefix(seq, k) ==
  IF k >= 0
    THEN SubSeq(seq, 1, Min(k, Len(seq)))
    ELSE SubSeq(seq, 1, Max(Len(seq) + k, 0))

\* the elements of a sequence
Range(seq) ==
  { seq[i] : i \in 1..Len(seq) }

\* the sequences over S of length at most n
SeqsUpTo(S, n) ==
  UNION { [1..k -> S] : k \in 0..n }

\* the concatenation of a sequence of sequences
RECURSIVE Flatten(_)
Flatten(seqs) ==
  IF seqs = <<>> THEN <<>> ELSE Head(seqs) \o Flatten(Tail(seqs))

\* every ordering of the set S, as a sequence: the orders in which a Python
\* set of str may be iterated (the order depends on the strings' hashes,
\* which are randomised per process)
IterationOrders(S) ==
  { o \in [1..Cardinality(S) -> S] : \A i, j \in 1..Cardinality(S) : i # j => o[i] # o[j] }

\* str.lower() on one character
LowerChar(c) ==
  CASE c = "A" -> "a"
    [] c = "B" -> "b"
    [] c = "C" -> "c"
    [] c = "D" -> "d"
    [] c = "E" -> "e"
    [] c = "F" -> "f"
    [] c = "G" -> "g"
    [] c = "H" -> "h"
    [] c = "I" -> "i"
    [] c = "J" -> "j"
    [] c = "K" -> "k"
    [] c = "L" -> "l"
    [] c = "M" -> "m"
    [] c = "N" -> "n"
    [] c = "O" -> "o"
    [] c = "P" -> "p"
    [] c = "Q" -> "q"
    [] c = "R" -> "r"
    [] c = "S" -> "s"
    [] c = "T" -> "t"
    [] c = "U" -> "u"
    [] c = "V" -> "v"
    [] c = "W" -> "w"
    [] c = "X" -> "x"
    [] c = "Y" -> "y"
    [] c = "Z" -> "z"
    [] OTHER -> c


\* s.lower()
Lower(s) ==
  [i \in 1..Len(s) |-> LowerChar(s[i])]

\* ------------------------------------------------------------------------
\* Code Review Skill Loader: the fixed tables
\* ------------------------------------------------------------------------

\* The dict literal LANGUAGE_MAP, as its key/value items in source order; a
\* key written twice ('.tsx', '.jsx') takes the value written last.
LANGUAGE_MAP_ITEMS ==
  << <<<<".", "p", "y">>, "python">>,
     <<<<".", "p", "y", "w">>, "python">>,
     <<<<".", "j", "s">>, "javascript">>,
     <<<<".", "j", "s", "x">>, "javascript">>,
     <<<<".", "t", "s">>, "javascript">>,
     <<<<".", "t", "s", "x">>, "javascript">>,
     <<<<".", "m", "j", "s">>, "javascript">>,
     <<<<".", "c", "j", "s">>, "javascript">>,
     <<<<".", "c", "s">>, "csharp">>,
     <<<<".", "j", "a", "v", "a">>, "java">>,
     <<<<".", "k", "t">>, "java">>,
     <<<<".", "s", "c", "a", "l", "a">>, "java">>,
     <<<<".", "g", "o">>, "go">>,
     <<<<".", "r", "s">>, "rust">>,
     <<<<".", "c">>, "cpp">>,
     <<<<".", "c", "p", "p">>, "cpp">>,
     <<<<".", "c", "c">>, "cpp">>,
     <<<<".", "c", "x", "x">>, "cpp">>,
     <<<<".", "h">>, "cpp">>,
     <<<<".", "h", "p", "p">>, "cpp">>,
     <<<<".", "v", "u", "e">>, "frontend">>,
     <<<<".", "s", "v", "e", "l", "t", "e">>, "frontend">>,
     <<<<".", "t", "s", "x">>, "frontend">>,
     <<<<".", "j", "s", "x">>, "frontend">> >>

\* FRAMEWORK_PATTERNS['frontend'] and ['backend'], in source order
PATTERNS_frontend ==
  << <<"C", "o", "m", "p", "o", "n", "e", "n", "t">>,
     <<"R", "e", "a", "c", "t">>,
     <<"V", "u", "e">>,
     <<"A", "n", "g", "u", "l", "a", "r">>,
     <<"u", "s", "e", "S", "t", "a", "t", "e">>,
     <<"u", "s", "e", "E", "f", "f", "e", "c", "t">>,
     <<".", "v", "u", "e">>,
     <<".", "t", "s", "x">>,
     <<".", "j", "s", "x">> >>

PATTERNS_backend ==
  << <<"C", "o", "n", "t", "r", "o", "l", "l", "e", "r">>,
     <<"S", "e", "r", "v", "i", "c", "e">>,
     <<"R", "e", "p", "o", "s", "i", "t", "o", "r", "y">>,
     <<"F", "a", "s", "t", "A", "P", "I">>,
     <<"F", "l", "a", "s", "k">>,
     <<"E", "x", "p", "r", "e", "s", "s">>,
     <<"S", "p", "r", "i", "n", "g">>,
     <<"a", "p", "p", ".">>,
     <<"r", "o", "u", "t", "e", "r", ".">> >>

\* LANGUAGE_MAP[ext] for a key of the dict: the value of the last item
\* written with that key
LANGUAGE_MAP(ext) ==
  LET at == { i \in 1..Len(LANGUAGE_MAP_ITEMS) : LANGUAGE_MAP_ITEMS[i][1] = ext }
      last == CHOOSE i \in at : \A j \in at : j <= i
  IN  LANGUAGE_MAP_ITEMS[last][2]

\* ext in LANGUAGE_MAP
InLanguageMap(ext) ==
  \E i \in 1..Len(LANGUAGE_MAP_ITEMS) : LANGUAGE_MAP_ITEMS[i][1] = ext

\* Path(path).suffix: the final component's last '.' and what follows it,
\* unless that dot starts or ends the component
PathSuffix(path) ==
  LET slashes == { i \in 1..Len(path) : path[i] = "/" }
      from == IF slashes = {} THEN 1 ELSE (CHOOSE i \in slashes : \A j \in slashes : j <= i) + 1
      name == SubSeq(path, from, Len(path))
      dots == { i \in 1..Len(name) : name[i] = "." }
      dot == IF dots = {} THEN 0 ELSE CHOOSE i \in dots : \A j \in dots : j <= i
  IN  IF dot > 1 /\ dot < Len(name) THEN SubSeq(name, dot, Len(name)) ELSE <<>>

\* detect_languages(files): the set of language tags of the files' extensions
detect_languages(files) ==
  { LANGUAGE_MAP(Lower(PathSuffix(files[i].path))) :
      i \in { j \in 1..Len(files) : InLanguageMap(Lower(PathSuffix(files[j].path))) } }

\* pattern in content, for a content held as its lines (no pattern holds a
\* line break)
InContent(content, pattern) ==
  \E i \in 1..Len(content) : Contains(content[i], pattern)

\* the inner loop of detect_frameworks for one file and one pattern group
FrameworkMatches(file, patterns) ==
  \E i \in 1..Len(patterns) :
    \/ Contains(Lower(file.path), Lower(patterns[i]))
    \/ InContent(file.content, patterns[i])

\* detect_frameworks(files)
detect_frameworks(files) ==
  { fw \in {"frontend", "backend"} :
      \E i \in 1..Len(files) :
        FrameworkMatches(files[i], IF fw = "frontend" THEN PATTERNS_frontend ELSE PATTERNS_backend) }

\* ------------------------------------------------------------------------
\* The skill directory.  SKILL.md is absent or a text held as tokens: the
\* delimiter "---", white space "ws", and other text ("meta", "body").
\* references/<name>.md exists for the names in refs; its content is opaque.
\* A prompt is a sequence of pieces: a piece of SKILL.md (ref = "") or a
\* reference section (ref = its name, which the heading upper-cases).
\* ------------------------------------------------------------------------

SkillPiece(tok) ==
  [ref |-> "", text |-> tok]

\* s.strip() on a token text
StripWs(toks) ==
  LET keep == { i \in 1..Len(toks) : toks[i] # "ws" }
  IN  IF keep = {} THEN <<>>
      ELSE SubSeq(toks, CHOOSE i \in keep : \A j \in keep : i <= j,
                        CHOOSE i \in keep : \A j \in keep : j <= i)

\* load_skill_content(skill_path), as tokens; <<>> is the empty string
load_skill_content(store) ==
  IF ~store.skill_exists THEN <<>>
  ELSE LET content == store.skill
           delims == { i \in 1..Len(content) : content[i] = "---" }
       IN  IF Len(content) > 0 /\ content[1] = "---" /\ Cardinality(delims) >= 2
             THEN LET second == CHOOSE i \in delims : Cardinality({ j \in delims : j < i }) = 1
                  IN  StripWs(SubSeq(content, second + 1, Len(content)))
             ELSE content

\* load_reference(skill_path, ref_name): the section, or the empty string
load_reference(store, ref_name) ==
  IF ref_name \in store.refs
    THEN << [ref |-> ref_name, text |-> "reference content"] >>
    ELSE <<>>

\* get_fallback_prompt()
get_fallback_prompt ==
  << [ref |-> "", text |-> "embedded fallback prompt"] >>

CORE_REFS ==
  << "security", "architecture", "performance" >>

\* one "for name in names: ... prompt += ref_content" loop of
\* build_review_prompt: what it appends
AppendedSections(store, names) ==
  Flatten([i \in 1..Len(names) |-> load_reference(store, names[i])])

\* the same loop: what it appends to loaded_refs
LoadedNames(store, names) ==
  SelectSeq(names, LAMBDA n : load_reference(store, n) # <<>>)

\* A prompt builder that goes on to the references after taking the
\* fallback prompt.
build_review_prompt_no_return(store, files, lang_order, fw_order) ==
  LET loaded == load_skill_content(store)
      prompt == IF loaded = <<>> THEN get_fallback_prompt
                ELSE [i \in 1..Len(loaded) |-> SkillPiece(loaded[i])]
  IN  [body |-> prompt
                  \o AppendedSections(store, CORE_REFS)
                  \o AppendedSections(store, lang_order)
                  \o AppendedSections(store, fw_order),
       loaded_refs |-> LoadedNames(store, CORE_REFS)
                         \o LoadedNames(store, lang_order)
                         \o LoadedNames(store, fw_order)]

\* build_review_prompt(skill_path, files).  lang_order and fw_order are the
\* orders in which this execution iterates the two detected sets.
build_review_prompt(store, files, lang_order, fw_order) ==
  LET prompt == load_skill_content(store)
  IN  IF prompt = <<>>
        THEN [body |-> get_fallback_prompt, loaded_refs |-> <<>>]
        ELSE [body |-> [i \in 1..Len(prompt) |-> SkillPiece(prompt[i])]
                         \o AppendedSections(store, CORE_REFS)
                         \o AppendedSections(store, lang_order)
                         \o AppendedSections(store, fw_order),
              loaded_refs |-> LoadedNames(store, CORE_REFS)
                                \o LoadedNames(store, lang_order)
                                \o LoadedNames(store, fw_order)]

\* ------------------------------------------------------------------------
\* The string literals of the source, character by character
\* ------------------------------------------------------------------------

\* '## Code Review Summary'
W_SummaryHeading ==
  <<"#", "#", " ", "C", "o", "d", "e", " ", "R", "e", "v", "i", "e", "w", " ", "S", "u", "m", "m", "a", "r", "y">>

\* '**Overall Assessment**: APPROVE'
W_Approve ==
  <<"*", "*", "O", "v", "e", "r", "a", "l", "l", " ", "A", "s", "s", "e", "s", "s", "m", "e", "n", "t", "*", "*", ":", " ", "A", "P", "P", "R", "O", "V", "E">>

\* 'No reviewable files found in this PR.'
W_NoFiles ==
  <<"N", "o", " ", "r", "e", "v", "i", "e", "w", "a", "b", "l", "e", " ", "f", "i", "l", "e", "s", " ", "f", "o", "u", "n", "d", " ", "i", "n", " ", "t", "h", "i", "s", " ", "P", "R", ".">>

\* '---'
W_Rule ==
  <<"-", "-", "-">>

\* '*Generated by AI Code Review*'
W_Generated ==
  <<"*", "G", "e", "n", "e", "r", "a", "t", "e", "d", " ", "b", "y", " ", "A", "I", " ", "C", "o", "d", "e", " ", "R", "e", "v", "i", "e", "w", "*">>

\* '**Overall Assessment**: NEEDS DISCUSSION'
W_NeedsDiscussion ==
  <<"*", "*", "O", "v", "e", "r", "a", "l", "l", " ", "A", "s", "s", "e", "s", "s", "m", "e", "n", "t", "*", "*", ":", " ", "N", "E", "E", "D", "S", " ", "D", "I", "S", "C", "U", "S", "S", "I", "O", "N">>

\* 'AI review encountered an error: '
W_ErrorPrefix ==
  <<"A", "I", " ", "r", "e", "v", "i", "e", "w", " ", "e", "n", "c", "o", "u", "n", "t", "e", "r", "e", "d", " ", "a", "n", " ", "e", "r", "r", "o", "r", ":", " ">>

\* 'Please review this PR manually.'
W_ManualReview ==
  <<"P", "l", "e", "a", "s", "e", " ", "r", "e", "v", "i", "e", "w", " ", "t", "h", "i", "s", " ", "P", "R", " ", "m", "a", "n", "u", "a", "l", "l", "y", ".">>

\* '**Files reviewed:** '
W_FilesReviewed ==
  <<"*", "*", "F", "i", "l", "e", "s", " ", "r", "e", "v", "i", "e", "w", "e", "d", ":", "*", "*", " ">>

\* '**Model:** '
W_Model ==
  <<"*", "*", "M", "o", "d", "e", "l", ":", "*", "*", " ">>

\* '*Generated by AI Code Review using code-review skill*'
W_GeneratedSkill ==
  <<"*", "G", "e", "n", "e", "r", "a", "t", "e", "d", " ", "b", "y", " ", "A", "I", " ", "C", "o", "d", "e", " ", "R", "e", "v", "i", "e", "w", " ", "u", "s", "i", "n", "g", " ", "c", "o", "d", "e", "-", "r", "e", "v", "i", "e", "w", " ", "s", "k", "i", "l", "l", "*">>

\* '## AI Code Review'
W_AiCodeReview ==
  <<"#", "#", " ", "A", "I", " ", "C", "o", "d", "e", " ", "R", "e", "v", "i", "e", "w">>

\* 'No changes found to review.'
W_NoChanges ==
  <<"N", "o", " ", "c", "h", "a", "n", "g", "e", "s", " ", "f", "o", "u", "n", "d", " ", "t", "o", " ", "r", "e", "v", "i", "e", "w", ".">>

\* 'Critical'
W_Critical ==
  <<"C", "r", "i", "t", "i", "c", "a", "l">>

\* 'High Priority'
W_HighPriority ==
  <<"H", "i", "g", "h", " ", "P", "r", "i", "o", "r", "i", "t", "y">>

\* 'High'
W_High ==
  <<"H", "i", "g", "h">>

\* '... (truncated, '
W_TruncatedHead ==
  <<".", ".", ".", " ", "(", "t", "r", "u", "n", "c", "a", "t", "e", "d", ",", " ">>

\* ' lines omitted)'
W_TruncatedTail ==
  <<" ", "l", "i", "n", "e", "s", " ", "o", "m", "i", "t", "t", "e", "d", ")">>

\* 'gpt-5.2-codex'
DEFAULT_MODEL ==
  <<"g", "p", "t", "-", "5", ".", "2", "-", "c", "o", "d", "e", "x">>

\* ------------------------------------------------------------------------
\* File Filtering: the fixed tables
\* ------------------------------------------------------------------------

REVIEW_EXTENSIONS ==
  { <<".", "p", "y">>,
    <<".", "j", "s">>,
    <<".", "t", "s">>,
    <<".", "t", "s", "x">>,
    <<".", "j", "s", "x">>,
    <<".", "c", "s">>,
    <<".", "j", "a", "v", "a">>,
    <<".", "g", "o">>,
    <<".", "r", "s">>,
    <<".", "r", "b">>,
    <<".", "c", "p", "p">>,
    <<".", "c">>,
    <<".", "h">>,
    <<".", "h", "p", "p">>,
    <<".", "s", "w", "i", "f", "t">>,
    <<".", "k", "t">>,
    <<".", "s", "c", "a", "l", "a">>,
    <<".", "p", "h", "p">>,
    <<".", "v", "u", "e">>,
    <<".", "s", "v", "e", "l", "t", "e">> }

SKIP_PATTERNS ==
  { <<"p", "a", "c", "k", "a", "g", "e", "-", "l", "o", "c", "k", ".", "j", "s", "o", "n">>,
    <<"y", "a", "r", "n", ".", "l", "o", "c", "k">>,
    <<"p", "n", "p", "m", "-", "l", "o", "c", "k", ".", "y", "a", "m", "l">>,
    <<".", "m", "i", "n", ".", "j", "s">>,
    <<".", "m", "i", "n", ".", "c", "s", "s">>,
    <<".", "b", "u", "n", "d", "l", "e", ".", "j", "s">>,
    <<"d", "i", "s", "t", "/">>,
    <<"b", "u", "i", "l", "d", "/">>,
    <<"n", "o", "d", "e", "_", "m", "o", "d", "u", "l", "e", "s", "/">>,
    <<".", "g", "e", "n", "e", "r", "a", "t", "e", "d", ".">>,
    <<".", "D", "e", "s", "i", "g", "n", "e", "r", ".", "c", "s">>,
    <<"m", "i", "g", "r", "a", "t", "i", "o", "n", "s", "/">>,
    <<"_", "_", "p", "y", "c", "a", "c", "h", "e", "_", "_", "/">> }

\* ------------------------------------------------------------------------
\* File Filtering
\* ------------------------------------------------------------------------

\* should_review_file(path)
should_review_file(path) ==
  /\ ~ \E pattern \in SKIP_PATTERNS : Contains(path, pattern)
  /\ \E ext \in REVIEW_EXTENSIONS : EndsWith(path, ext)

DigitChars ==
  << "0", "1", "2", "3", "4", "5", "6", "7", "8", "9" >>

\* str(n) for n >= 0, as in an f-string
RECURSIVE Str(_)
Str(n) ==
  IF n < 10 THEN << DigitChars[n + 1] >>
  ELSE Str(n \div 10) \o << DigitChars[(n % 10) + 1] >>

\* int(digits) for a string matched by \d+
RECURSIVE PyInt(_)
PyInt(digits) ==
  IF digits = <<>> THEN 0
  ELSE 10 * PyInt(SubSeq(digits, 1, Len(digits) - 1))
         + (CHOOSE d \in 0..9 : DigitChars[d + 1] = digits[Len(digits)])

\* A file content is held as content.split('\n'): its lines, at least one
\* (the empty string is the one empty line).  '\n'.join(lines), held the same
\* way: joining no line at all gives the empty string.
JoinLines(lines) ==
  IF lines = <<>> THEN << <<>> >> ELSE lines

\* "if content:" for a content that is not None
NonEmptyContent(content) ==
  content # << <<>> >>

\* A truncation that keeps one line too many.
TruncateContentOffByOne(content, max_lines_per_file) ==
  LET lines == content
  IN  IF Len(lines) > max_lines_per_file
        THEN Append(JoinLines(PyPrefix(lines, max_lines_per_file + 1)),
                    W_TruncatedHead \o Str(Len(lines) - max_lines_per_file) \o W_TruncatedTail)
        ELSE content

\* main, "Truncate very large files": the content appended to files_to_review
TruncateContent(content, max_lines_per_file) ==
  LET lines == content
  IN  IF Len(lines) > max_lines_per_file
        THEN Append(JoinLines(PyPrefix(lines, max_lines_per_file)),
                    W_TruncatedHead \o Str(Len(lines) - max_lines_per_file) \o W_TruncatedTail)
        ELSE content

\* main, "Limit number of files"
LimitFiles(files, max_files) ==
  IF Len(files) > max_files THEN PyPrefix(files, max_files) ELSE files

\* ------------------------------------------------------------------------
\* Review texts.  A review text is a sequence of tokens:
\*   "###"  an occurrence of the split pattern ###\s+
\*   "nl"   a line break
\*   "ref"  an occurrence of the file/line pattern **File**: `s:digits`,
\*          with range = TRUE when a -endLine suffix follows the digits
\*   "text" any other run of characters s, holding no "###" and no reference
\* ------------------------------------------------------------------------

Marker ==
  [k |-> "###", s |-> <<>>, digits |-> <<>>, range |-> FALSE]

NL ==
  [k |-> "nl", s |-> <<>>, digits |-> <<>>, range |-> FALSE]

Text(s) ==
  [k |-> "text", s |-> s, digits |-> <<>>, range |-> FALSE]

FileRef(path, digits, range) ==
  [k |-> "ref", s |-> path, digits |-> digits, range |-> range]

\* word in text, for a word that holds no line break, no backtick and no '#'
InText(text, word) ==
  \E i \in 1..Len(text) : Contains(text[i].s, word)

\* perform_ai_review: the text returned for an empty file list
NoFilesReview ==
  << Text(W_SummaryHeading), NL, NL, Text(W_Approve), NL, NL, Text(W_NoFiles), NL, NL,
     Text(W_Rule), NL, Text(W_Generated) >>

\* A fallback text that reports the error and leaves out the request for a
\* manual review.
ErrorReviewWithoutNotice(message) ==
  << Text(W_SummaryHeading), NL, NL, Text(W_NeedsDiscussion), NL, NL, Text(W_ErrorPrefix) >>
  \o message
  \o << NL, NL, Text(W_Rule), NL, Text(W_Generated) >>

\* perform_ai_review: the text returned when the generation call raised e
\* (message: str(e), as tokens)
ErrorReview(message) ==
  << Text(W_SummaryHeading), NL, NL, Text(W_NeedsDiscussion), NL, NL, Text(W_ErrorPrefix) >>
  \o message
  \o << NL, NL, Text(W_ManualReview), NL, NL, Text(W_Rule), NL, Text(W_Generated) >>

\* main: review_with_footer
ReviewWithFooter(review_result, n_files, model) ==
  review_result
  \o << NL, NL, Text(W_Rule), NL, Text(W_FilesReviewed), Text(Str(n_files)), NL,
        Text(W_Model), Text(model), NL, Text(W_GeneratedSkill) >>

\* main: the comment posted when the PR has no iteration
NoChangesComment ==
  << Text(W_AiCodeReview), NL, NL, Text(W_NoChanges) >>

\* re.split(r'###\s+', review_text)
RECURSIVE SplitSections(_)
SplitSections(text) ==
  LET marks == { i \in 1..Len(text) : text[i].k = "###" }
  IN  IF marks = {} THEN << text >>
      ELSE LET first == CHOOSE i \in marks : \A j \in marks : i <= j
           IN  << SubSeq(text, 1, first - 1) >> \o SplitSections(SubSeq(text, first + 1, Len(text)))

\* the condition of extract_issues_from_review on a section
SectionSelected(section) ==
  \/ InText(section, W_Critical)
  \/ InText(section, W_HighPriority)
  \/ InText(section, W_High)

\* the issues extract_issues_from_review appends for one section
SectionIssues(section) ==
  IF SectionSelected(section)
    THEN LET severity == IF InText(section, W_Critical) THEN "critical" ELSE "high"
             matches == SelectSeq(section, LAMBDA tok : tok.k = "ref")
         IN  [i \in 1..Len(matches) |->
                [file |-> IF StartsWith(matches[i].s, << "/" >>)
                            THEN matches[i].s ELSE << "/" >> \o matches[i].s,
                 line |-> PyInt(matches[i].digits),
                 severity |-> severity]]
    ELSE <<>>

\* extract_issues_from_review(review_text)
extract_issues_from_review(review_text) ==
  LET sections == SplitSections(review_text)
  IN  Flatten([i \in 1..Len(sections) |-> SectionIssues(sections[i])])

\* main, "for issue in issues[:10]"
INLINE_LIMIT ==
  10

\* main, "tracking_id = 1": the id used when no reviewed file matches
DEFAULT_TRACKING_ID ==
  1

\* main: the tracking id the annotation loop finds for an issue
FindTrackingId(files, issue_file) ==
  LET hits == { i \in 1..Len(files) :
                  \/ files[i].path = issue_file
                  \/ EndsWith(files[i].path, LStrip(issue_file, "/")) }
  IN  IF hits = {} THEN DEFAULT_TRACKING_ID
      ELSE files[CHOOSE i \in hits : \A j \in hits : i <= j].change_tracking_id

\* ------------------------------------------------------------------------
\* The state of a run of main()
\* ------------------------------------------------------------------------

VARIABLES
  pc,               \* where main is: "iterations", "changes", "collect", "review",
                    \* "post", "extract", "inline", "done" (main returned),
                    \* "crashed" (an exception left main); "prompt" in SpecPrompt
  config,           \* load_config(): max_files, max_lines_per_file, model
  store,            \* the skill directory: skill_exists, skill, refs
  iteration_id,     \* latest_iteration['id']
  source_commit,    \* the latest iteration's source commit id, "" when it has none
  changes,          \* the change entries get_iteration_changes returned
  change_idx,       \* the position of "for change in changes"
  files_to_review,  \* main's list of the files handed to the review
  skipped_files,    \* main's skip log: path and reason
  content_calls,    \* the positions in changes for which get_file_content was called
  prompts,          \* the result of each execution of build_review_prompt
  generation,       \* the chat completion call: whether made, whether it raised, and
                    \* the text returned or the exception's message
  review_result,    \* what perform_ai_review returned
  summary_posts,    \* the calls of post_pr_comment: content and result
  issues,           \* what extract_issues_from_review returned
  inline_idx,       \* the position of "for issue in issues[:10]"
  inline_attempts,  \* the calls of post_inline_comment: arguments and result
  inline_count,     \* main's inline_count
  ran               \* the stages entered so far

vars ==
  << pc, config, store, iteration_id, source_commit, changes, change_idx, files_to_review,
     skipped_files, content_calls, prompts, generation, review_result, summary_posts,
     issues, inline_idx, inline_attempts, inline_count, ran >>

\* The state when main starts, for a configuration and a skill directory
\* taken from the given sets.
Start(configs, stores) ==
  /\ pc = "iterations"
  /\ config \in configs
  /\ store \in stores
  /\ iteration_id = 0
  /\ source_commit = ""
  /\ changes = <<>>
  /\ change_idx = 1
  /\ files_to_review = <<>>
  /\ skipped_files = <<>>
  /\ content_calls = <<>>
  /\ prompts = <<>>
  /\ generation = [called |-> FALSE, raised |-> FALSE, text |-> <<>>]
  /\ review_result = <<>>
  /\ summary_posts = <<>>
  /\ issues = <<>>
  /\ inline_idx = 1
  /\ inline_attempts = <<>>
  /\ inline_count = 0
  /\ ran = {}

\* A client whose summary comment is never recorded.
post_pr_comment_dropped(content, ok) ==
  summary_posts' = summary_posts

\* client.post_pr_comment(content), returning ok
post_pr_comment(content, ok) ==
  summary_posts' = Append(summary_posts, [content |-> content, ok |-> ok])

\* main, "Get PR iterations": get_pr_iterations() raises (raise_for_status) or
\* returns the list of iterations; an empty list ends the run with a comment.
GetIterations(outcomes) ==
  /\ pc = "iterations"
  /\ \E r \in outcomes, ok \in BOOLEAN :
       IF r.raised
         THEN /\ pc' = "crashed"
              /\ UNCHANGED << iteration_id, source_commit, summary_posts >>
         ELSE IF r.value = <<>>
           THEN /\ post_pr_comment(NoChangesComment, ok)
                /\ pc' = "done"
                /\ UNCHANGED << iteration_id, source_commit >>
           ELSE /\ iteration_id' = r.value[Len(r.value)].id
                /\ source_commit' = r.value[Len(r.value)].source_commit
                /\ pc' = "changes"
                /\ UNCHANGED summary_posts
  /\ ran' = ran \cup {"get_pr_iterations"}
  /\ UNCHANGED << config, store, changes, change_idx, files_to_review, skipped_files,
                  content_calls, prompts, generation, review_result, issues, inline_idx,
                  inline_attempts, inline_count >>

\* main, "Get changed files": get_iteration_changes() raises or returns the
\* change entries.
GetChanges(outcomes) ==
  /\ pc = "changes"
  /\ \E r \in outcomes :
       IF r.raised
         THEN pc' = "crashed" /\ UNCHANGED changes
         ELSE pc' = "collect" /\ changes' = r.value
  /\ ran' = ran \cup {"get_iteration_changes"}
  /\ UNCHANGED << config, store, iteration_id, source_commit, change_idx, files_to_review,
                  skipped_files, content_calls, prompts, generation, review_result,
                  summary_posts, issues, inline_idx, inline_attempts, inline_count >>

\* A filter that lets deleted files through.
IsDeletedNever(change) ==
  FALSE

\* main, "Skip deleted files": the test
IsDeleted(change) ==
  change.changeType = "delete"

\* skipped_files.append(f"{path} ({reason})")
Skip(path, reason) ==
  skipped_files' = Append(skipped_files, [path |-> path, reason |-> reason])

\* main, one turn of "for change in changes".  get_file_content() returns
\* None (status not 200) or the content.
CollectFile(contents) ==
  /\ pc = "collect"
  /\ change_idx <= Len(changes)
  /\ LET change == changes[change_idx]
         path == change.path
     IN  IF IsDeleted(change)
           THEN Skip(path, "deleted") /\ UNCHANGED << files_to_review, content_calls, ran >>
         ELSE IF ~should_review_file(path)
           THEN Skip(path, "skipped") /\ UNCHANGED << files_to_review, content_calls, ran >>
         ELSE IF source_commit = ""
           THEN Skip(path, "content not available")
                /\ UNCHANGED << files_to_review, content_calls, ran >>
         ELSE \E r \in contents :
                /\ content_calls' = Append(content_calls, change_idx)
                /\ ran' = ran \cup {"get_file_content"}
                /\ IF r.status = 200 /\ NonEmptyContent(r.content)
                     THEN /\ files_to_review' = Append(files_to_review,
                                [path |-> path,
                                 content |-> TruncateContent(r.content, config.max_lines_per_file),
                                 change_type |-> change.changeType,
                                 change_tracking_id |-> change.changeTrackingId])
                          /\ UNCHANGED skipped_files
                     ELSE /\ Skip(path, "content not available")
                          /\ UNCHANGED files_to_review
  /\ change_idx' = change_idx + 1
  /\ UNCHANGED << pc, config, store, iteration_id, source_commit, changes, prompts, generation,
                  review_result, summary_posts, issues, inline_idx, inline_attempts,
                  inline_count >>

\* main, after the loop: "Limit number of files"
ApplyFileLimit ==
  /\ pc = "collect"
  /\ change_idx > Len(changes)
  /\ files_to_review' = LimitFiles(files_to_review, config.max_files)
  /\ pc' = "review"
  /\ UNCHANGED << config, store, iteration_id, source_commit, changes, change_idx,
                  skipped_files, content_calls, prompts, generation, review_result,
                  summary_posts, issues, inline_idx, inline_attempts, inline_count, ran >>

\* main, "Perform AI review": perform_ai_review(files_to_review, config).  The
\* chat completion returns a text or raises; the exception is caught.
Review(responses) ==
  /\ pc = "review"
  /\ IF files_to_review = <<>>
       THEN /\ review_result' = NoFilesReview
            /\ UNCHANGED << prompts, generation >>
       ELSE \E lang_order \in IterationOrders(detect_languages(files_to_review)),
               fw_order \in IterationOrders(detect_frameworks(files_to_review)),
               r \in responses :
              /\ prompts' = Append(prompts,
                                   build_review_prompt(store, files_to_review, lang_order, fw_order))
              /\ generation' = [called |-> TRUE, raised |-> r.raised, text |-> r.text]
              /\ review_result' = IF r.raised THEN ErrorReview(r.text) ELSE r.text
  /\ ran' = ran \cup (IF files_to_review = <<>> THEN {"perform_ai_review"}
                      ELSE {"perform_ai_review", "build_review_prompt", "generate"})
  /\ pc' = "post"
  /\ UNCHANGED << config, store, iteration_id, source_commit, changes, change_idx,
                  files_to_review, skipped_files, content_calls, summary_posts, issues,
                  inline_idx, inline_attempts, inline_count >>

\* main, "Post summary comment"
PostSummary ==
  /\ pc = "post"
  /\ \E ok \in BOOLEAN :
       post_pr_comment(ReviewWithFooter(review_result, Len(files_to_review), config.model), ok)
  /\ pc' = "extract"
  /\ UNCHANGED << config, store, iteration_id, source_commit, changes, change_idx,
                  files_to_review, skipped_files, content_calls, prompts, generation,
                  review_result, issues, inline_idx, inline_attempts, inline_count, ran >>

\* main, "Extract and post inline comments": the extraction
Extract ==
  /\ pc = "extract"
  /\ issues' = extract_issues_from_review(review_result)
  /\ ran' = ran \cup {"extract_issues_from_review"}
  /\ pc' = "inline"
  /\ UNCHANGED << config, store, iteration_id, source_commit, changes, change_idx,
                  files_to_review, skipped_files, content_calls, prompts, generation,
                  review_result, summary_posts, inline_idx, inline_attempts, inline_count >>

\* An annotation loop without the cap.
IssuesToPostAll(found) ==
  found

\* issues[:10]
IssuesToPost(found) ==
  PyPrefix(found, INLINE_LIMIT)

\* main: severity_emoji
SeverityLabel(severity) ==
  IF severity = "critical" THEN "CRITICAL" ELSE IF severity = "high" THEN "HIGH" ELSE "ISSUE"

\* A count of the attempts instead of the successes.
CountInlineAlways(count, ok) ==
  count + 1

\* main: what one turn of the annotation loop does to inline_count when
\* post_inline_comment returned ok
CountInline(count, ok) ==
  IF ok THEN count + 1 ELSE count

\* main, one turn of "for issue in issues[:10]".  post_inline_comment()
\* returns True (status 200 or 201) or False.
PostInline ==
  /\ pc = "inline"
  /\ inline_idx <= Len(IssuesToPost(issues))
  /\ LET issue == IssuesToPost(issues)[inline_idx]
     IN  \E ok \in BOOLEAN :
           /\ inline_attempts' = Append(inline_attempts,
                [file |-> issue.file,
                 line |-> issue.line,
                 label |-> SeverityLabel(issue.severity),
                 tracking_id |-> FindTrackingId(files_to_review, issue.file),
                 iteration_id |-> iteration_id,
                 ok |-> ok])
           /\ inline_count' = CountInline(inline_count, ok)
  /\ inline_idx' = inline_idx + 1
  /\ ran' = ran \cup {"post_inline_comment"}
  /\ UNCHANGED << pc, config, store, iteration_id, source_commit, changes, change_idx,
                  files_to_review, skipped_files, content_calls, prompts, generation,
                  review_result, summary_posts, issues >>

\* main, after the annotation loop: the final prints, and main returns
Finish ==
  /\ pc = "inline"
  /\ inline_idx > Len(IssuesToPost(issues))
  /\ pc' = "done"
  /\ UNCHANGED << config, store, iteration_id, source_commit, changes, change_idx,
                  files_to_review, skipped_files, content_calls, prompts, generation,
                  review_result, summary_posts, issues, inline_idx, inline_attempts,
                  inline_count, ran >>

\* build_review_prompt executed on its own, on the skill directory and the
\* file list of the state: one more execution, with the iteration orders of
\* that execution
ExecuteBuildPrompt(max_executions) ==
  /\ pc = "prompt"
  /\ Len(prompts) < max_executions
  /\ \E lang_order \in IterationOrders(detect_languages(files_to_review)),
        fw_order \in IterationOrders(detect_frameworks(files_to_review)) :
       prompts' = Append(prompts,
                         build_review_prompt(store, files_to_review, lang_order, fw_order))
  /\ ran' = ran \cup {"build_review_prompt"}
  /\ UNCHANGED << pc, config, store, iteration_id, source_commit, changes, change_idx,
                  files_to_review, skipped_files, content_calls, generation, review_result,
                  summary_posts, issues, inline_idx, inline_attempts, inline_count >>

\* ------------------------------------------------------------------------
\* Bounded inputs: the outcomes of the external calls that a run may meet
\* ------------------------------------------------------------------------

\* '/a/b.py'
P_a_b_py ==
  <<"/", "a", "/", "b", ".", "p", "y">>

\* '/x/a/b.py'
P_x_a_b_py ==
  <<"/", "x", "/", "a", "/", "b", ".", "p", "y">>

\* 'a/b.py'
P_rel_a_b_py ==
  <<"a", "/", "b", ".", "p", "y">>

\* '/c.go'
P_c_go ==
  <<"/", "c", ".", "g", "o">>

\* '/v.tsx'
P_v_tsx ==
  <<"/", "v", ".", "t", "s", "x">>

\* '/r.md'
P_readme ==
  <<"/", "r", ".", "m", "d">>

\* '/dist/a.js'
P_dist_js ==
  <<"/", "d", "i", "s", "t", "/", "a", ".", "j", "s">>

\* 'z.py'
P_z_py ==
  <<"z", ".", "p", "y">>

\* 'x'
L_x ==
  <<"x">>

\* 'Flask'
L_Flask ==
  <<"F", "l", "a", "s", "k">>

\* 'Critical Issues (Blocking)'
H_Critical ==
  <<"C", "r", "i", "t", "i", "c", "a", "l", " ", "I", "s", "s", "u", "e", "s", " ", "(", "B", "l", "o", "c", "k", "i", "n", "g", ")">>

\* 'High Priority'
H_HighPriority ==
  <<"H", "i", "g", "h", " ", "P", "r", "i", "o", "r", "i", "t", "y">>

\* 'Suggestions'
H_Suggestions ==
  <<"S", "u", "g", "g", "e", "s", "t", "i", "o", "n", "s">>

\* 'Highly readable'
B_Remark ==
  <<"H", "i", "g", "h", "l", "y", " ", "r", "e", "a", "d", "a", "b", "l", "e">>

\* 'Rate limit exceeded'
E_RateLimit ==
  <<"R", "a", "t", "e", " ", "l", "i", "m", "i", "t", " ", "e", "x", "c", "e", "e", "d", "e", "d">>

\* 'Looks good.'
T_LooksGood ==
  <<"L", "o", "o", "k", "s", " ", "g", "o", "o", "d", ".">>

\* load_config(): the defaults of MAX_FILES and MAX_LINES_PER_FILE
DEFAULT_MAX_FILES ==
  50

DEFAULT_MAX_LINES_PER_FILE ==
  1000

DefaultConfig ==
  [max_files |-> DEFAULT_MAX_FILES, max_lines_per_file |-> DEFAULT_MAX_LINES_PER_FILE,
   model |-> DEFAULT_MODEL]

\* a skill directory without SKILL.md, and one with a SKILL.md that has a
\* front matter and with two of the references
NoSkillStore ==
  [skill_exists |-> FALSE, skill |-> <<>>, refs |-> {"security", "python"}]

SkillStore ==
  [skill_exists |-> TRUE, skill |-> << "---", "meta", "---", "ws", "body" >>,
   refs |-> {"security", "python"}]

Raised ==
  [raised |-> TRUE, value |-> <<>>]

Returned(value) ==
  [raised |-> FALSE, value |-> value]

Iteration(id, commit) ==
  [id |-> id, source_commit |-> commit]

\* get_pr_iterations(): an HTTP error, no iteration, one iteration, and two
\* of which the latest names no source commit
IterationOutcomes ==
  { Raised, Returned(<<>>), Returned(<< Iteration(1, "c1") >>),
    Returned(<< Iteration(1, "c1"), Iteration(2, "") >>) }

Change(path, changeType, changeTrackingId) ==
  [path |-> path, changeType |-> changeType, changeTrackingId |-> changeTrackingId]

\* get_file_content(): a status and, for 200, the content as its lines
ContentResponse(status, content) ==
  [status |-> status, content |-> content]

NotFound ==
  ContentResponse(404, << <<>> >>)

\* the chat completion: a text, or an exception with its message
Completion(text) ==
  [raised |-> FALSE, text |-> text]

CompletionError(message) ==
  [raised |-> TRUE, text |-> << Text(message) >>]

\* a review section: "### heading", a line break, then the body
Section(heading, body) ==
  << Marker, Text(heading), NL >> \o body

\* ---- the runs of Spec: every stage, on small inputs

MaxChanges ==
  2

MainChanges ==
  { Raised } \cup
  { Returned(cs) : cs \in SeqsUpTo({ Change(P_a_b_py, "edit", 7), Change(P_a_b_py, "delete", 8),
                                     Change(P_c_go, "add", 3), Change(P_readme, "edit", 4),
                                     Change(P_dist_js, "add", 5) },
                                   MaxChanges) }

MainContents ==
  { NotFound, ContentResponse(200, << <<>> >>), ContentResponse(200, << L_x, L_Flask >>) }

MainResponses ==
  { CompletionError(E_RateLimit),
    Completion(<< Text(T_LooksGood) >>),
    Completion(Section(H_Critical, << FileRef(P_rel_a_b_py, << "5" >>, FALSE),
                                      FileRef(P_z_py, << "7" >>, FALSE) >>)),
    Completion(Section(H_Suggestions, << FileRef(P_rel_a_b_py, << "5" >>, FALSE) >>)) }

Init ==
  Start({ DefaultConfig, [DefaultConfig EXCEPT !.max_files = 1, !.max_lines_per_file = 1] },
        { NoSkillStore, SkillStore })

Next ==
  \/ GetIterations(IterationOutcomes)
  \/ GetChanges(MainChanges)
  \/ CollectFile(MainContents)
  \/ ApplyFileLimit
  \/ Review(MainResponses)
  \/ PostSummary
  \/ Extract
  \/ PostInline
  \/ Finish

Spec ==
  Init /\ [][Next]_vars

\* ---- the runs of SpecFilter: the stages up to the review, for limits from
\* -1 (MAX_FILES and MAX_LINES_PER_FILE are any integer of the environment)
\* and contents longer than the limits

MaxLimit ==
  2

MaxFilterChanges ==
  3

MaxContentLines ==
  3

FilterConfigs ==
  { [DefaultConfig EXCEPT !.max_files = f, !.max_lines_per_file = l] :
      f \in -1..MaxLimit, l \in -1..MaxLimit }

FilterChanges ==
  { Raised } \cup
  { Returned(cs) : cs \in SeqsUpTo({ Change(P_a_b_py, "edit", 7), Change(P_c_go, "delete", 3) },
                                   MaxFilterChanges) }

FilterContents ==
  { NotFound } \cup { ContentResponse(200, [i \in 1..n |-> L_x]) : n \in 1..MaxContentLines }

InitFilter ==
  Start(FilterConfigs, { NoSkillStore })

NextFilter ==
  \/ GetIterations(IterationOutcomes)
  \/ GetChanges(FilterChanges)
  \/ CollectFile(FilterContents)
  \/ ApplyFileLimit

SpecFilter ==
  InitFilter /\ [][NextFilter]_vars

\* ---- the runs of SpecFindings: every stage, for review texts of up to two
\* sections and for one section with many references, on file lists whose
\* paths match a referenced path exactly, as a suffix, or not at all

MaxFindings ==
  11

FindingChanges ==
  { Returned(<< Change(P_rel_a_b_py, "edit", 7) >>),
    Returned(<< Change(P_x_a_b_py, "edit", 3) >>),
    Returned(<< Change(P_x_a_b_py, "edit", 3), Change(P_a_b_py, "edit", 7) >>),
    Returned(<< Change(P_a_b_py, "edit", 7), Change(P_x_a_b_py, "edit", 3) >>) }

FindingContents ==
  { ContentResponse(200, << L_x >>) }

\* **File**: `a/b.py:5`, **File**: `/a/b.py:42-50` and **File**: `z.py:0`
FindingRefs ==
  { FileRef(P_rel_a_b_py, << "5" >>, FALSE),
    FileRef(P_a_b_py, << "4", "2" >>, TRUE),
    FileRef(P_z_py, << "0" >>, FALSE) }

FindingSections ==
  { Section(heading, remark \o refs) :
      heading \in { H_Critical, H_HighPriority, H_Suggestions },
      remark \in { <<>>, << Text(B_Remark), NL >> },
      refs \in { <<>> } \cup { << ref, NL >> : ref \in FindingRefs } }

ShortReviews ==
  { << Text(W_SummaryHeading), NL >> \o tail :
      tail \in { <<>> } \cup FindingSections \cup { a \o b : a, b \in FindingSections } }

LongReviews ==
  { Section(H_Critical, [i \in 1..n |-> FileRef(P_rel_a_b_py, Str(i), FALSE)]) :
      n \in 3..MaxFindings }

FindingResponses ==
  { Completion(text) : text \in ShortReviews \cup LongReviews }

InitFindings ==
  Start({ DefaultConfig }, { SkillStore })

NextFindings ==
  \/ GetIterations(IterationOutcomes)
  \/ GetChanges(FindingChanges)
  \/ CollectFile(FindingContents)
  \/ ApplyFileLimit
  \/ Review(FindingResponses)
  \/ PostSummary
  \/ Extract
  \/ PostInline
  \/ Finish

SpecFindings ==
  InitFindings /\ [][NextFindings]_vars

\* ---- SpecPrompt: build_review_prompt as a function of the skill directory
\* and of the file list, executed up to MaxExecutions times on the same inputs

MaxExecutions ==
  2

PromptStores ==
  { [skill_exists |-> FALSE, skill |-> <<>>, refs |-> refs] :
      refs \in SUBSET {"security", "python", "go", "frontend", "backend"} }
  \cup
  { [skill_exists |-> TRUE, skill |-> skill, refs |-> refs] :
      skill \in { <<>>, << "body" >>, << "---", "meta", "---", "ws", "body" >>,
                  << "---", "meta", "---", "ws" >>, << "---", "body" >> },
      refs \in SUBSET {"security", "python", "go", "frontend", "backend"} }

ReviewedFile(path, content) ==
  [path |-> path, content |-> content, change_type |-> "edit", change_tracking_id |-> 1]

PromptFiles ==
  { ReviewedFile(P_a_b_py, << L_x >>), ReviewedFile(P_c_go, << L_x >>),
    ReviewedFile(P_v_tsx, << L_x >>), ReviewedFile(P_a_b_py, << L_Flask >>) }

PromptFileLists ==
  { << f >> : f \in PromptFiles } \cup { << f, g >> : f, g \in PromptFiles }

InitPrompt ==
  /\ pc = "prompt"
  /\ config = DefaultConfig
  /\ store \in PromptStores
  /\ iteration_id = 0
  /\ source_commit = ""
  /\ changes = <<>>
  /\ change_idx = 1
  /\ files_to_review \in PromptFileLists
  /\ skipped_files = <<>>
  /\ content_calls = <<>>
  /\ prompts = <<>>
  /\ generation = [called |-> FALSE, raised |-> FALSE, text |-> <<>>]
  /\ review_result = <<>>
  /\ summary_posts = <<>>
  /\ issues = <<>>
  /\ inline_idx = 1
  /\ inline_attempts = <<>>
  /\ inline_count = 0
  /\ ran = {}

NextPrompt ==
  ExecuteBuildPrompt(MaxExecutions)

SpecPrompt ==
  InitPrompt /\ [][NextPrompt]_vars

\* ------------------------------------------------------------------------
\* Properties of the runs of Spec
\* ------------------------------------------------------------------------

Terminated ==
  pc \in {"done", "crashed"}

\* C1: every run that got past load_config has called post_pr_comment
\* exactly once when it terminates, whatever the external calls did.
C1_ExactlyOneSummaryPerRun ==
  Terminated => Len(summary_posts) = 1

\* C2: when the chat completion raised, perform_ai_review returned (main did
\* not crash) a text that holds the manual-review notice and the exception's
\* message after the error prefix, and main calls post_pr_comment exactly
\* once, with a text that holds the notice.
C2_GenerationFailureIsReported ==
  generation.raised =>
    /\ pc \in {"post", "extract", "inline", "done"}
    /\ InText(review_result, W_ManualReview)
    /\ \E i \in 1..Len(review_result) :
         /\ review_result[i] = Text(W_ErrorPrefix)
         /\ SubSeq(review_result, i + 1, i + Len(generation.text)) = generation.text
    /\ Len(summary_posts) = (IF pc = "post" THEN 0 ELSE 1)
    /\ \A i \in 1..Len(summary_posts) : InText(summary_posts[i].content, W_ManualReview)

\* C2, witness: a run that ended after a failed chat completion
C2_Witness ==
  /\ pc = "done"
  /\ generation.raised
  /\ files_to_review # <<>>
  /\ Len(summary_posts) = 1

\* C7: no change entry of type delete is in files_to_review, was passed to
\* get_file_content, or gives its tracking id to an inline comment; each one
\* processed is in the skip log as deleted.
C7_DeletedNeverReviewed ==
  LET deleted == { i \in 1..Len(changes) : changes[i].changeType = "delete" }
      kept == { i \in 1..Len(changes) : changes[i].changeType # "delete" }
  IN  /\ \A i \in 1..Len(files_to_review) :
           /\ files_to_review[i].change_type # "delete"
           /\ \E c \in kept :
                /\ changes[c].path = files_to_review[i].path
                /\ changes[c].changeTrackingId = files_to_review[i].change_tracking_id
      /\ \A i \in 1..Len(content_calls) : content_calls[i] \in kept
      /\ \A i \in 1..Len(inline_attempts) :
           \/ inline_attempts[i].tracking_id = DEFAULT_TRACKING_ID
           \/ \E c \in kept : changes[c].changeTrackingId = inline_attempts[i].tracking_id
      /\ Cardinality({ j \in 1..Len(skipped_files) : skipped_files[j].reason = "deleted" })
           = Cardinality({ i \in deleted : i < change_idx })
      /\ \A i \in deleted :
           i < change_idx =>
             \E j \in 1..Len(skipped_files) :
               skipped_files[j] = [path |-> changes[i].path, reason |-> "deleted"]

\* C7, witness: a finished run whose change list held a deleted file and a
\* reviewed one, and that posted an inline comment
C7_Witness ==
  /\ pc = "done"
  /\ \E i \in 1..Len(changes) : changes[i].changeType = "delete"
  /\ files_to_review # <<>>
  /\ inline_attempts # <<>>

\* ------------------------------------------------------------------------
\* Properties of the runs of SpecFilter
\* ------------------------------------------------------------------------

\* a line written by the truncation: "... (truncated, N lines omitted)"
IsTruncationMarker(line) ==
  StartsWith(line, W_TruncatedHead) /\ EndsWith(line, W_TruncatedTail)

\* C3, as claimed, here for limits of at least 1: the list handed to the
\* review has at most max_files entries and every content in it has at most
\* max_lines_per_file lines.
C3_WithinLimits ==
  (pc = "review" /\ config.max_files >= 1 /\ config.max_lines_per_file >= 1) =>
    /\ Len(files_to_review) <= config.max_files
    /\ \A i \in 1..Len(files_to_review) :
         Len(files_to_review[i].content) <= config.max_lines_per_file

\* C3, amended: for max_files >= 0 the list handed to the review has at most
\* max_files entries; for max_lines_per_file >= 1 every content in it has at
\* most max_lines_per_file lines, or exactly one more of which the last is
\* the truncation marker.
C3_WithinLimitsPlusMarker ==
  pc = "review" =>
    /\ config.max_files >= 0 => Len(files_to_review) <= config.max_files
    /\ config.max_lines_per_file >= 1 =>
         \A i \in 1..Len(files_to_review) :
           LET content == files_to_review[i].content
           IN  \/ Len(content) <= config.max_lines_per_file
               \/ /\ Len(content) = config.max_lines_per_file + 1
                  /\ IsTruncationMarker(content[Len(content)])

\* C3, witness: the file limit cut the list and a kept content was truncated
C3_Witness ==
  /\ pc = "review"
  /\ config.max_files >= 1
  /\ config.max_lines_per_file >= 1
  /\ Len(content_calls) > config.max_files
  /\ Len(files_to_review) = config.max_files
  /\ \E i \in 1..Len(files_to_review) :
       Len(files_to_review[i].content) = config.max_lines_per_file + 1

\* ------------------------------------------------------------------------
\* Properties of the runs of SpecFindings
\* ------------------------------------------------------------------------

\* the tracking id C4 describes: that of the first entry whose path equals
\* the file path; failing that, of the first entry whose path ends with the
\* file path stripped of its leading separator; failing that, 1
ExactFirstTrackingId(files, issue_file) ==
  LET exact == { i \in 1..Len(files) : files[i].path = issue_file }
      suffix == { i \in 1..Len(files) : EndsWith(files[i].path, LStrip(issue_file, "/")) }
  IN  IF exact # {} THEN files[CHOOSE i \in exact : \A j \in exact : i <= j].change_tracking_id
      ELSE IF suffix # {} THEN files[CHOOSE i \in suffix : \A j \in suffix : i <= j].change_tracking_id
      ELSE 1

\* C4: every inline comment is posted with the tracking id of the first
\* entry whose path equals the finding's file path, of the first entry whose
\* path ends with it only when none is equal, and with 1 when none matches.
C4_TrackingIdPrefersExactMatch ==
  \A i \in 1..Len(inline_attempts) :
    inline_attempts[i].tracking_id
      = ExactFirstTrackingId(files_to_review, inline_attempts[i].file)

\* the heading of a section: what precedes its first line break
HeadingOf(section) ==
  LET breaks == { i \in 1..Len(section) : section[i].k = "nl" }
  IN  IF breaks = {} THEN section
      ELSE SubSeq(section, 1, (CHOOSE i \in breaks : \A j \in breaks : i <= j) - 1)

\* the references C5 lets yield a finding: those of the "###" sections
\* (every section but what precedes the first "###") whose heading holds
\* 'Critical', 'High Priority' or 'High'
ReferencesUnderSelectedHeadings(text) ==
  LET sections == SplitSections(text)
  IN  Flatten([i \in 1..Len(sections) |->
                 IF i > 1 /\ SectionSelected(HeadingOf(sections[i]))
                   THEN SelectSeq(sections[i], LAMBDA tok : tok.k = "ref")
                   ELSE <<>>])

\* C5: the findings extracted are those of the references that lie in a
\* section whose heading holds 'Critical', 'High Priority' or 'High'; a
\* reference in another section yields none, whatever the section's body holds.
C5_OnlySelectedHeadingsYieldFindings ==
  pc \in {"inline", "done"} =>
    Len(issues) = Len(ReferencesUnderSelectedHeadings(review_result))

\* C6: the annotation loop posts for the first min(N, 10) findings, in
\* extraction order, and for no other: never more than 10 attempts, the i-th
\* attempt is for the i-th finding, and a finished run made min(N, 10).
C6_FirstTenFindingsInOrder ==
  /\ Len(inline_attempts) <= 10
  /\ Len(inline_attempts) <= Len(issues)
  /\ \A i \in 1..Len(inline_attempts) :
       /\ inline_attempts[i].file = issues[i].file
       /\ inline_attempts[i].line = issues[i].line
  /\ pc = "done" => Len(inline_attempts) = Min(Len(issues), 10)

\* C6, witness: a finished run with more than 10 findings
C6_Witness ==
  /\ pc = "done"
  /\ Len(issues) > 10
  /\ Len(inline_attempts) = 10

\* C8: a failed inline post neither stops the loop nor is retried or
\* counted: each turn of the loop makes one attempt, a finished run in which
\* an attempt failed still made one attempt for each of the first min(N, 10)
\* findings, and inline_count is the number of attempts that returned true.
C8_FailedInlinePostIsSkippedOver ==
  /\ inline_count = Cardinality({ i \in 1..Len(inline_attempts) : inline_attempts[i].ok })
  /\ pc = "inline" => Len(inline_attempts) = inline_idx - 1
  /\ (pc = "done" /\ \E i \in 1..Len(inline_attempts) : ~inline_attempts[i].ok) =>
       /\ Len(inline_attempts) = Min(Len(issues), 10)
       /\ \A i \in 1..Len(inline_attempts) :
            inline_attempts[i].line = issues[i].line

\* C8, witness: a finished run whose first attempt failed and whose later
\* attempts succeeded
C8_Witness ==
  /\ pc = "done"
  /\ Len(inline_attempts) >= 3
  /\ ~inline_attempts[1].ok
  /\ \A i \in 2..Len(inline_attempts) : inline_attempts[i].ok
  /\ inline_count = Len(inline_attempts) - 1

\* ------------------------------------------------------------------------
\* Properties of the runs of SpecPrompt
\* ------------------------------------------------------------------------

\* C9: without SKILL.md, build_review_prompt returns the fallback prompt and
\* nothing else: no reference section is in the body and none is recorded
\* as loaded, whatever the files and the references that exist.
C9_FallbackPromptVerbatim ==
  ~store.skill_exists =>
    \A i \in 1..Len(prompts) :
      /\ prompts[i].body = get_fallback_prompt
      /\ \A j \in 1..Len(prompts[i].body) : prompts[i].body[j].ref = ""
      /\ prompts[i].loaded_refs = <<>>

\* C9, witness: the prompt was built without SKILL.md while a core reference
\* and the reference of a detected language exist
C9_Witness ==
  /\ ~store.skill_exists
  /\ "security" \in store.refs
  /\ detect_languages(files_to_review) \cap store.refs # {}
  /\ Len(prompts) >= 1

\* C10: two executions of build_review_prompt on the same skill directory
\* and the same files return the same body.
C10_SameInputsSameBody ==
  Len(prompts) >= 2 => prompts[1].body = prompts[2].body

\* The stages that follow the listing of the changes.
LaterStages ==
  {"get_file_content", "build_review_prompt", "generate",
   "extract_issues_from_review", "post_inline_comment"}

\* The run ended at "if not iterations".
NoIterations ==
  pc = "done" /\ "get_iteration_changes" \notin ran

\* The change list of the latest iteration was read and holds nothing to
\* review: it is empty, or every entry is a deletion or a path that
\* should_review_file rejects.
NoReviewableChanges ==
  /\ "get_iteration_changes" \in ran
  /\ pc # "crashed"
  /\ \A i \in 1..Len(changes) :
       changes[i].changeType = "delete" \/ ~should_review_file(changes[i].path)

\* C11 (as stated): when there is nothing to review (no iterations, or an
\* empty or fully filtered-out change list) the run posts one notification
\* and enters none of the later stages: content retrieval, prompt assembly,
\* generation, finding extraction, inline posting.
C11_NoChangesSkipsAllLaterStages ==
  (NoIterations \/ NoReviewableChanges) =>
    /\ ran \cap LaterStages = {}
    /\ Terminated => Len(summary_posts) = 1

\* C11 (amended): with no iterations the run posts the no-changes comment and
\* enters no later stage at all.  With a change list that holds nothing to
\* review the run goes on: it retrieves no content, assembles no prompt, makes
\* no generation call and posts no inline comment, but it posts the fixed
\* no-reviewable-files summary with its footer, once, and then runs the
\* finding extraction over that fixed text, which yields no finding.
C11_NoChangesShortCircuit ==
  /\ NoIterations =>
       /\ ran = {"get_pr_iterations"}
       /\ Len(summary_posts) = 1
       /\ summary_posts[1].content = NoChangesComment
  /\ NoReviewableChanges =>
       /\ ran \cap (LaterStages \ {"extract_issues_from_review"}) = {}
       /\ files_to_review = <<>>
       /\ pc \in {"extract", "inline", "done"} =>
            /\ Len(summary_posts) = 1
            /\ summary_posts[1].content = ReviewWithFooter(NoFilesReview, 0, config.model)
       /\ pc \in {"inline", "done"} =>
            /\ "extract_issues_from_review" \in ran
            /\ issues = <<>>
       /\ inline_attempts = <<>>

\* A finished run whose change list was not empty but held only deletions
\* and rejected paths, and which ran the extraction.
C11_Witness ==
  /\ pc = "done"
  /\ NoReviewableChanges
  /\ Len(changes) >= 1
  /\ "extract_issues_from_review" \in ran
  /\ Len(summary_posts) = 1

\* C12: every finding that extract_issues_from_review returns has a line
\* number of at least 1, a file path that starts with '/', and the severity
\* 'critical' or 'high'.
C12_FindingsAreWellFormed ==
  pc \in {"inline", "done"} =>
    \A i \in 1..Len(issues) :
      /\ issues[i].line >= 1
      /\ StartsWith(issues[i].file, << "/" >>)
      /\ issues[i].severity \in {"critical", "high"}

====
